---- MODULE Spec2Model ----
(***************************************************************************)
(* Model of the MT-code message codec of anybot/message.py (escape,        *)
(* unescape, MessageSegment, Message) and of the first step of             *)
(* nonebot/message.py handle_message.                                      *)
(*                                                                         *)
(* A Python str is a sequence of one-character strings.  A dict is a       *)
(* sequence of <<key, value>> pairs with unique keys, in insertion order.  *)
(* MessageSegment objects live in a heap (id -> [type, data]) because a    *)
(* Message is a list of references and the code mutates segments in place. *)
(***************************************************************************)
EXTENDS Integers, Sequences, FiniteSets, TLC

VARIABLES heap, msg, res, err, op, arg, old

vars == <<heap, msg, res, err, op, arg, old>>

(***************************************************************************)
(* Bounds of the model.                                                    *)
(***************************************************************************)
MaxSegs == 2
MaxRaw == 3
MaxText == 2
MaxTokens == 3

(***************************************************************************)
(* String literals.                                                        *)
(***************************************************************************)
TEXT == <<"t", "e", "x", "t">>
AT == <<"a", "t">>
QQ == <<"q", "q">>
AMP == <<"&">>
LBR == <<"[">>
RBR == <<"]">>
COMMA == <<",">>
EQUALS == <<"=">>
E_AMP == <<"&", "a", "m", "p", ";">>
E_LBR == <<"&", "#", "9", "1", ";">>
E_RBR == <<"&", "#", "9", "3", ";">>
E_COMMA == <<"&", "#", "4", "4", ";">>
MT_OPEN == <<"[", "M", "T", ":">>

None == [kind |-> "none"]

(***************************************************************************)
(* str.find(o): the position of the first occurrence of o in s, 0 if none. *)
(***************************************************************************)
Find(s, o) ==
  LET hits == {i \in 1..(Len(s) - Len(o) + 1) : SubSeq(s, i, i + Len(o) - 1) = o}
  IN IF hits = {} THEN 0
     ELSE CHOOSE i \in hits : \A j \in hits : i <= j

(***************************************************************************)
(* str.replace(old, new): leftmost non-overlapping occurrences.            *)
(***************************************************************************)
RECURSIVE Replace(_, _, _)
Replace(s, o, n) ==
  LET i == Find(s, o)
  IN IF i = 0 THEN s
     ELSE SubSeq(s, 1, i - 1) \o n
            \o Replace(SubSeq(s, i + Len(o), Len(s)), o, n)

\* the last step of escape, on the string s1 of the first three
EscapeComma(s1, escape_comma) ==
  IF escape_comma THEN Replace(s1, COMMA, E_COMMA) ELSE s1

escape(s, escape_comma) ==
  EscapeComma(Replace(Replace(Replace(s, AMP, E_AMP), LBR, E_LBR), RBR, E_RBR),
              escape_comma)

\* variant: the ampersand entity replaced first
unescapeAmpFirst(s) ==
  Replace(Replace(Replace(Replace(s, E_AMP, AMP), E_COMMA, COMMA),
                  E_LBR, LBR), E_RBR, RBR)

unescape(s) ==
  Replace(Replace(Replace(Replace(s, E_COMMA, COMMA), E_LBR, LBR),
                  E_RBR, RBR), E_AMP, AMP)

(***************************************************************************)
(* dict operations on the pair-sequence representation.                    *)
(***************************************************************************)
DictHas(d, k) == \E i \in 1..Len(d) : d[i][1] = k

DictGet(d, k) == d[CHOOSE i \in 1..Len(d) : d[i][1] = k][2]

DictSet(d, k, v) ==
  IF DictHas(d, k)
  THEN [i \in 1..Len(d) |-> IF d[i][1] = k THEN <<k, v>> ELSE d[i]]
  ELSE Append(d, <<k, v>>)

DictEq(d1, d2) ==
  {d1[i] : i \in 1..Len(d1)} = {d2[i] : i \in 1..Len(d2)}

(***************************************************************************)
(* MessageSegment: value equality and the static constructors.             *)
(***************************************************************************)
Segment(type_, data) == [type |-> type_, data |-> data]

SegEq(a, b) == a.type = b.type /\ DictEq(a.data, b.data)

text(t) == Segment(TEXT, << <<TEXT, t>> >>)

(***************************************************************************)
(* MessageSegment.__str__ and Message.__str__ (on segment values).         *)
(***************************************************************************)
RECURSIVE ParamStr(_)
ParamStr(d) ==
  IF d = <<>> THEN <<>>
  ELSE COMMA \o d[1][1] \o EQUALS \o escape(d[1][2], TRUE) \o ParamStr(Tail(d))

\* variant: text rendered without escaping
SegStrRaw(seg) ==
  IF seg.type = TEXT
  THEN [err |-> "none",
        out |-> IF DictHas(seg.data, TEXT) THEN DictGet(seg.data, TEXT) ELSE <<>>]
  ELSE [err |-> "none", out |-> MT_OPEN \o seg.type \o ParamStr(seg.data) \o RBR]

SegStr(seg) ==
  IF seg.type = TEXT
  THEN [err |-> "none",
        out |-> escape(IF DictHas(seg.data, TEXT) THEN DictGet(seg.data, TEXT)
                       ELSE <<>>, FALSE)]
  ELSE [err |-> "none", out |-> MT_OPEN \o seg.type \o ParamStr(seg.data) \o RBR]

\* ''.join of the rendering h of a segment and the rendering t of the rest
JoinStr(h, t) ==
  IF h.err # "none" THEN h
  ELSE IF t.err # "none" THEN t
  ELSE [err |-> "none", out |-> h.out \o t.out]

RECURSIVE MessageStr(_)
MessageStr(segs) ==
  IF segs = <<>> THEN [err |-> "none", out |-> <<>>]
  ELSE JoinStr(SegStr(Head(segs)), MessageStr(Tail(segs)))

(***************************************************************************)
(* Message._split_iter: the tokenizer.                                     *)
(***************************************************************************)
Letters ==
  {"a", "b", "c", "d", "e", "f", "g", "h", "i", "j", "k", "l", "m",
   "n", "o", "p", "q", "r", "s", "t", "u", "v", "w", "x", "y", "z",
   "A", "B", "C", "D", "E", "F", "G", "H", "I", "J", "K", "L", "M",
   "N", "O", "P", "Q", "R", "S", "T", "U", "V", "W", "X", "Y", "Z"}

Digits == {"0", "1", "2", "3", "4", "5", "6", "7", "8", "9"}

\* the character class [a-zA-Z0-9-_.]
NameChars == Letters \cup Digits \cup {"-", "_", "."}

WhiteSpace == {" ", "\t", "\n", "\r", "\f"}

\* index of the first c in s at or after position i, 0 if there is none
IndexFrom(s, c, i) ==
  IF \E j \in i..Len(s) : s[j] = c
  THEN CHOOSE j \in i..Len(s) : s[j] = c /\ \A k \in i..(j - 1) : s[k] # c
  ELSE 0

\* str.split(c)
RECURSIVE Split(_, _)
Split(s, c) ==
  LET i == IndexFrom(s, c, 1)
  IN IF i = 0 THEN <<s>>
     ELSE <<SubSeq(s, 1, i - 1)>> \o Split(SubSeq(s, i + 1, Len(s)), c)

\* str.split('=', maxsplit=1)
SplitFirst(s, c) ==
  LET i == IndexFrom(s, c, 1)
  IN IF i = 0 THEN <<s>>
     ELSE <<SubSeq(s, 1, i - 1), SubSeq(s, i + 1, Len(s))>>

\* str.lstrip(chars)
RECURSIVE LStrip(_, _)
LStrip(s, chars) ==
  IF s # <<>> /\ Head(s) \in chars THEN LStrip(Tail(s), chars) ELSE s

RECURSIVE JoinParams(_)
JoinParams(frags) ==
  IF frags = <<>> THEN <<>>
  ELSE COMMA \o Head(frags) \o JoinParams(Tail(frags))

NoMatch == [ok |-> FALSE, end |-> 0, type |-> <<>>, params |-> <<>>]

\* a parameter fragment the regular expression accepts: a name character
\* (the key needs one), an optional '=', then anything up to ',' or ']'
FragmentMatches(p) == p # <<>> /\ p[1] \in NameChars

(***************************************************************************)
(* The regular expression of _split_iter, matched at position i: the       *)
(* opening "[MT:", a type of one or more name characters, any number of    *)
(* groups of a comma, one or more name characters, an optional "=" and     *)
(* any characters but "," and "]", then an optional comma and "]".         *)
(* No part of it but the last matches ']', so a match ends at the first    *)
(* ']' after the opening; the text between splits on ',' into the type     *)
(* and the parameter fragments, the last of which may be empty (",?").     *)
(***************************************************************************)
\* the fragments after the type; an empty last one is the optional comma
TrimLast(rest) ==
  IF rest # <<>> /\ rest[Len(rest)] = <<>> THEN SubSeq(rest, 1, Len(rest) - 1)
  ELSE rest

MatchFragments(j, type_, frags) ==
  IF /\ type_ # <<>>
     /\ \A k \in 1..Len(type_) : type_[k] \in NameChars
     /\ \A k \in 1..Len(frags) : FragmentMatches(frags[k])
  THEN [ok |-> TRUE, end |-> j, type |-> type_, params |-> JoinParams(frags)]
  ELSE NoMatch

MatchPieces(j, pieces) == MatchFragments(j, pieces[1], TrimLast(Tail(pieces)))

\* the match that opens at i and closes at the first ']', at position j
MatchUpTo(s, i, j) ==
  IF j = 0 THEN NoMatch
  ELSE MatchPieces(j, Split(SubSeq(s, i + 4, j - 1), ","))

MatchAt(s, i) ==
  IF i + 3 > Len(s) \/ SubSeq(s, i, i + 3) # MT_OPEN THEN NoMatch
  ELSE MatchUpTo(s, i, IndexFrom(s, "]", i + 4))

\* positions at or after i where a token matches
MatchStarts(s, i) == {k \in i..Len(s) : MatchAt(s, k).ok}

Least(S) == CHOOSE k \in S : \A j \in S : k <= j

\* iter_function_name_and_extra: re.finditer over msg_str from position i,
\* the literal text pending since text_begin
RECURSIVE IterNameExtra(_, _, _)

\* the pairs yielded for the match m at position k, then the rest
IterMatch(s, text_begin, k, m) ==
  << <<TEXT, unescape(SubSeq(s, text_begin, k - 1))>>,
     <<m.type, LStrip(m.params, {","})>> >>
  \o IterNameExtra(s, m.end + 1, m.end + 1)

IterFrom(s, text_begin, starts) ==
  IF starts = {}
  THEN << <<TEXT, unescape(SubSeq(s, text_begin, Len(s)))>> >>
  ELSE IterMatch(s, text_begin, Least(starts), MatchAt(s, Least(starts)))

IterNameExtra(s, i, text_begin) == IterFrom(s, text_begin, MatchStarts(s, i))

\* filter(lambda x: x, (x.lstrip() for x in extra.split(',')))
RECURSIVE Fragments(_)
Fragments(parts) ==
  IF parts = <<>> THEN <<>>
  ELSE LET x == LStrip(Head(parts), WhiteSpace)
       IN (IF x # <<>> THEN <<x>> ELSE <<>>) \o Fragments(Tail(parts))

\* the dict comprehension {k: v for k, v in map(split, ...)}: unpacking a
\* fragment without '=' raises ValueError
RECURSIVE BuildData(_, _)
BuildData(frags, d) ==
  IF frags = <<>> THEN [err |-> "none", data |-> d]
  ELSE LET kv == SplitFirst(Head(frags), "=")
       IN IF Len(kv) < 2 THEN [err |-> "ValueError", data |-> d]
          ELSE BuildData(Tail(frags), DictSet(d, kv[1], kv[2]))

\* the generator _split_iter, as the segments it yields before it stops and
\* the error it stops with
RECURSIVE YieldSegments(_)

Yield(seg, r) == [r EXCEPT !.segs = <<seg>> \o @]

\* the branch of a typed token with the data b built from its parameters
YieldToken(function_name, b, pairs) ==
  IF b.err # "none" THEN [segs |-> <<>>, err |-> b.err]
  ELSE Yield(Segment(function_name, b.data), YieldSegments(pairs))

YieldPair(function_name, extra, pairs) ==
  IF function_name = TEXT
  THEN IF extra # <<>>
       \* only yield non-empty text segment
       THEN Yield(text(extra), YieldSegments(pairs))
       ELSE YieldSegments(pairs)
  ELSE YieldToken(function_name, BuildData(Fragments(Split(extra, ",")), <<>>),
                  pairs)

YieldSegments(pairs) ==
  IF pairs = <<>> THEN [segs |-> <<>>, err |-> "none"]
  ELSE YieldPair(Head(pairs)[1], Head(pairs)[2], Tail(pairs))

_split_iter(msg_str) == YieldSegments(IterNameExtra(msg_str, 1, 1))

(***************************************************************************)
(* Argument values.  A caller passes a MessageSegment, a plain mapping     *)
(* (with a type and data, or the empty mapping), a list of these, another  *)
(* Message, a str or a number; "ref" is a MessageSegment object that is    *)
(* already in the heap.                                                    *)
(***************************************************************************)
SegArg(seg) == [kind |-> "seg", type |-> seg.type, data |-> seg.data]
DictArg(type_, data) == [kind |-> "dict", type |-> type_, data |-> data]
EmptyDict == [kind |-> "dict", type |-> <<>>, data |-> <<>>]
ListArg(items) == [kind |-> "list", items |-> items]
MsgArg(segs) == [kind |-> "msg", items |-> [i \in 1..Len(segs) |-> SegArg(segs[i])]]
StrArg(chars) == [kind |-> "str", chars |-> chars]
IntArg == [kind |-> "int"]
RefArg(id) == [kind |-> "ref", id |-> id]

(***************************************************************************)
(* The heap of MessageSegment objects and a Message as a list of ids.      *)
(* A store is the heap, the list of the Message operated on and the        *)
(* exception the operation has raised so far.                              *)
(***************************************************************************)
NewId(h) == CHOOSE i \in 1..(Cardinality(DOMAIN h) + 1) :
              i \notin DOMAIN h /\ \A j \in 1..(i - 1) : j \in DOMAIN h

Store(h, l) == [heap |-> h, list |-> l, err |-> "none"]

Raise(st, e) == [st EXCEPT !.err = e]

Deref(h, l) == [i \in 1..Len(l) |-> h[l[i]]]

Push(st, id) == [st EXCEPT !.list = Append(@, id)]

\* self[-1].data['text'] += obj.data['text']
MergeText(st, id, obj) ==
  [st EXCEPT !.heap[id].data =
     DictSet(@, TEXT, DictGet(@, TEXT) \o DictGet(obj.data, TEXT))]

\* MessageSegment.__init__(d): a mapping with a non-empty type is copied,
\* anything else raises ValueError
MessageSegment(v) ==
  IF v.kind \in {"dict", "seg"} /\ v.type # <<>>
  THEN [err |-> "none", seg |-> Segment(v.type, v.data)]
  ELSE [err |-> "ValueError", seg |-> None]

\* variant: no merge into a text tail
AppendSegmentNoMerge(st, id) ==
  LET obj == st.heap[id]
      n == Len(st.list)
  IN IF obj.type # TEXT THEN Push(st, id)
     ELSE IF ~DictHas(obj.data, TEXT) THEN Raise(st, "KeyError")
     ELSE IF DictGet(obj.data, TEXT) # <<>> \/ n = 0 THEN Push(st, id)
     ELSE st

\* Message.append, the branch of an obj that is a MessageSegment
AppendSegment(st, id) ==
  LET obj == st.heap[id]
      n == Len(st.list)
  IN IF n > 0 /\ st.heap[st.list[n]].type = TEXT /\ obj.type = TEXT
     THEN IF ~DictHas(st.heap[st.list[n]].data, TEXT) \/ ~DictHas(obj.data, TEXT)
          THEN Raise(st, "KeyError")
          ELSE MergeText(st, st.list[n], obj)
     ELSE IF obj.type # TEXT THEN Push(st, id)
     ELSE IF ~DictHas(obj.data, TEXT) THEN Raise(st, "KeyError")
     ELSE IF DictGet(obj.data, TEXT) # <<>> \/ n = 0 THEN Push(st, id)
     ELSE st

\* Message.append
MessageAppend(st, v) ==
  IF v.kind = "ref" THEN AppendSegment(st, v.id)
  ELSE LET c == IF v.kind = "seg" THEN [err |-> "none", seg |-> Segment(v.type, v.data)]
                ELSE MessageSegment(v)
           id == NewId(st.heap)
       IN IF c.err # "none" THEN Raise(st, "ValueError")
          ELSE AppendSegment([st EXCEPT !.heap = (id :> c.seg) @@ @], id)

\* for seg in msg: self.append(seg)
RECURSIVE AppendEach(_, _)
AppendEach(st, items) ==
  IF items = <<>> \/ st.err # "none" THEN st
  ELSE AppendEach(MessageAppend(st, Head(items)), Tail(items))

\* raise e unless st has raised already
RaiseAfter(st, e) == IF st.err # "none" THEN st ELSE Raise(st, e)

SegArgs(segs) == [i \in 1..Len(segs) |-> SegArg(segs[i])]

\* extend over the generator g: the segments it yields are appended one by
\* one, then the error it stops with is raised
ExtendParsed(st, g) == RaiseAfter(AppendEach(st, SegArgs(g.segs)), g.err)

\* Message.extend
MessageExtend(st, v) ==
  IF v.kind = "str" THEN ExtendParsed(st, _split_iter(v.chars))
  ELSE IF v.kind \in {"list", "msg"} THEN AppendEach(st, v.items)
  ELSE IF v.kind \in {"seg", "dict"}
       \* iterating a mapping yields its keys, which are str
       THEN IF v.type # <<>> THEN Raise(st, "ValueError") ELSE st
  ELSE Raise(st, "TypeError")

\* Message.__init__ on a fresh list
MessageInit(h, v) ==
  IF v.kind \in {"list", "msg", "str"} THEN MessageExtend(Store(h, <<>>), v)
  ELSE IF v.kind \in {"seg", "dict"} THEN MessageAppend(Store(h, <<>>), v)
  ELSE Store(h, <<>>)

\* result.extend(map(lambda d: MessageSegment(d), other))
RECURSIVE ExtendMapped(_, _)
ExtendMapped(st, items) ==
  IF items = <<>> \/ st.err # "none" THEN st
  ELSE LET c == MessageSegment(Head(items))
       IN IF c.err # "none" THEN Raise(st, c.err)
          ELSE ExtendMapped(MessageAppend(st, SegArg(c.seg)), Tail(items))

\* Message.__add__ after result = Message(self)
AddOther(result, other) ==
  IF result.err # "none" THEN result
  ELSE IF other.kind \in {"msg", "str"} THEN MessageExtend(result, other)
  ELSE IF other.kind = "seg" THEN MessageAppend(result, other)
  ELSE IF other.kind = "list" THEN ExtendMapped(result, other.items)
  ELSE IF other.kind = "dict"
       THEN IF MessageSegment(other).err # "none"
            THEN Raise(result, MessageSegment(other).err)
            ELSE MessageAppend(result, SegArg(MessageSegment(other).seg))
  ELSE result

\* Message.__add__: the store of the result
MessageAdd(h, self, other) ==
  AddOther(MessageInit(h, ListArg([i \in 1..Len(self) |-> RefArg(self[i])])),
           other)

RemoveAt(l, idx) == SubSeq(l, 1, idx - 1) \o SubSeq(l, idx + 1, Len(l))

\* variant: idx advances after a merge too
RECURSIVE ReduceFromAdvancing(_, _)
ReduceFromAdvancing(st, idx) ==
  IF idx > Len(st.list) THEN st
  ELSE IF /\ idx > 1
          /\ st.heap[st.list[idx - 1]].type = TEXT
          /\ st.heap[st.list[idx]].type = TEXT
       THEN IF \/ ~DictHas(st.heap[st.list[idx - 1]].data, TEXT)
               \/ ~DictHas(st.heap[st.list[idx]].data, TEXT)
            THEN Raise(st, "KeyError")
            ELSE ReduceFromAdvancing(
                   [MergeText(st, st.list[idx - 1], st.heap[st.list[idx]])
                      EXCEPT !.list = RemoveAt(@, idx)], idx + 1)
       ELSE ReduceFromAdvancing(st, idx + 1)

\* Message.reduce, from position idx on (positions count from 1 here)
RECURSIVE ReduceFrom(_, _)
ReduceFrom(st, idx) ==
  IF idx > Len(st.list) THEN st
  ELSE IF /\ idx > 1
          /\ st.heap[st.list[idx - 1]].type = TEXT
          /\ st.heap[st.list[idx]].type = TEXT
       THEN IF \/ ~DictHas(st.heap[st.list[idx - 1]].data, TEXT)
               \/ ~DictHas(st.heap[st.list[idx]].data, TEXT)
            THEN Raise(st, "KeyError")
            ELSE ReduceFrom(
                   [MergeText(st, st.list[idx - 1], st.heap[st.list[idx]])
                      EXCEPT !.list = RemoveAt(@, idx)], idx)
       ELSE ReduceFrom(st, idx + 1)

MessageReduce(st) == ReduceFrom(st, 1)

\* the loop of extract_plain_text
RECURSIVE PlainText(_)
PlainText(segs) ==
  IF segs = <<>> THEN [err |-> "none", out |-> <<>>]
  ELSE LET r == PlainText(Tail(segs))
       IN IF Head(segs).type # TEXT THEN r
          ELSE IF ~DictHas(Head(segs).data, TEXT)
               THEN [err |-> "KeyError", out |-> <<>>]
          ELSE IF r.err # "none" THEN r
          ELSE [err |-> "none",
                out |-> <<" ">> \o DictGet(Head(segs).data, TEXT) \o r.out]

\* the return value of extract_plain_text for the loop's result r
PlainTextOf(st2, r) ==
  [st |-> Raise(st2, r.err),
   out |-> IF r.out # <<>> THEN Tail(r.out) ELSE r.out]

\* extract_plain_text after the optional reduce()
ExtractFrom(st2) ==
  IF st2.err # "none" THEN [st |-> st2, out |-> <<>>]
  ELSE PlainTextOf(st2, PlainText(Deref(st2.heap, st2.list)))

\* Message.extract_plain_text
ExtractPlainText(st, reduce) ==
  ExtractFrom(IF reduce THEN MessageReduce(st) ELSE st)

(***************************************************************************)
(* Inputs of the operations.                                               *)
(***************************************************************************)
Range(f) == {f[i] : i \in DOMAIN f}

SeqsUpTo(S, n) == UNION {[1..k -> S] : k \in 0..n}

RECURSIVE Flatten(_)
Flatten(ss) == IF ss = <<>> THEN <<>> ELSE Head(ss) \o Flatten(Tail(ss))

Str_MT_at == MT_OPEN \o AT \o RBR
Str_MT_at_qq_1 == MT_OPEN \o AT \o COMMA \o QQ \o EQUALS \o <<"1">> \o RBR
Str_MT_at_qq == MT_OPEN \o AT \o COMMA \o QQ \o RBR
Str_MT_bad_type == MT_OPEN \o <<"a", "!">> \o RBR

KeylessText == Segment(TEXT, <<>>)
AtSeg == Segment(AT, <<>>)
AtQQ(v) == Segment(AT, << <<QQ, v>> >>)

TextPool == {<<>>, <<"a">>, <<"b">>}

SegPool == {text(t) : t \in TextPool} \cup {KeylessText, AtSeg}

ListItems == {SegArg(text(<<"b">>)), SegArg(AtSeg), EmptyDict}

StrPool == {<<"a">>, Str_MT_at_qq_1, Str_MT_at_qq,
            <<"a">> \o Str_MT_at_qq, Str_MT_bad_type,
            <<"b">> \o Str_MT_at \o <<"a">>}

AppendArgs == {SegArg(g) : g \in SegPool}
                \cup {DictArg(TEXT, << <<TEXT, <<"a">> >> >>), EmptyDict, IntArg}

ExtendArgs == {ListArg(l) : l \in SeqsUpTo(ListItems, 2)}
                \cup {StrArg(c) : c \in StrPool}
                \cup {IntArg, DictArg(AT, <<>>)}

AddArgs == {MsgArg(<<text(<<"b">>)>>), MsgArg(<<AtSeg>>),
            SegArg(text(<<"b">>)), SegArg(AtSeg),
            ListArg(<<DictArg(TEXT, << <<TEXT, <<"b">> >> >>), EmptyDict>>),
            ListArg(<<DictArg(AT, <<>>)>>),
            DictArg(TEXT, << <<TEXT, <<"b">> >> >>), EmptyDict,
            StrArg(<<"a">>), StrArg(Str_MT_at_qq), IntArg}

(***************************************************************************)
(* State: heap and msg are the Message under test, res the value the last  *)
(* operation returned, err the exception it raised, op and arg the         *)
(* operation and its argument, old the segments of msg before it.          *)
(***************************************************************************)
\* the operations that grow a Message stop at MaxSegs segments and MaxText
\* characters of text
Bounded(st) ==
  /\ Len(st.list) <= MaxSegs
  /\ \A i \in Range(st.list) :
       DictHas(st.heap[i].data, TEXT)
         => Len(DictGet(st.heap[i].data, TEXT)) <= MaxText

IndexOf(l, x) == CHOOSE i \in 1..Len(l) : l[i] = x

\* Objects no list refers to are dropped and the others renumbered in the
\* order of msg, then of the returned Message: an id has no meaning but
\* which references are equal.
Commit(h, l, r, e) ==
  LET extra == IF r.kind = "msg"
               THEN SelectSeq(r.items, LAMBDA id : id \notin Range(l))
               ELSE <<>>
      order == l \o extra
      h2 == [i \in 1..Len(order) |-> h[order[i]]]
  IN /\ heap' = h2
     /\ msg' = [i \in 1..Len(l) |-> i]
     /\ res' = IF r.kind = "msg"
               THEN [r EXCEPT !.items = [i \in 1..Len(@) |-> IndexOf(order, @[i])]]
               ELSE r
     /\ err' = e
     /\ old' = Deref(heap, msg)

Init ==
  /\ heap = <<>>
  /\ msg = <<>>
  /\ res = None
  /\ err = "none"
  /\ op = "init"
  /\ arg = None
  /\ old = <<>>

\* Message(None, segs): the list constructor takes the segments as they are
InitRaw ==
  /\ \E segs \in SeqsUpTo(SegPool, MaxRaw) :
       /\ heap = segs
       /\ msg = [i \in 1..Len(segs) |-> i]
  /\ res = None
  /\ err = "none"
  /\ op = "init"
  /\ arg = None
  /\ old = <<>>

\* an operation on msg that returns self and has left the store st
Returned(st) == Commit(st.heap, st.list, None, st.err)

Grown(st) == Bounded(st) /\ Returned(st)

DoAppend ==
  \E a \in AppendArgs :
    /\ op' = "append"
    /\ arg' = a
    /\ Grown(MessageAppend(Store(heap, msg), a))

DoExtend ==
  \E a \in ExtendArgs :
    /\ op' = "extend"
    /\ arg' = a
    /\ Grown(MessageExtend(Store(heap, msg), a))

\* m + other: st is the store of the result, msg stays the list of m
Added(st) ==
  /\ Bounded(st)
  /\ Commit(st.heap, msg,
            IF st.err = "none" THEN [kind |-> "msg", items |-> st.list] ELSE None,
            st.err)

DoAdd ==
  \E a \in AddArgs :
    /\ op' = "add"
    /\ arg' = a
    /\ Added(MessageAdd(heap, msg, a))

DoReduce ==
  /\ op' = "reduce"
  /\ arg' = None
  /\ Returned(MessageReduce(Store(heap, msg)))

Extracted(r) ==
  Commit(r.st.heap, r.st.list,
         IF r.st.err = "none" THEN StrArg(r.out) ELSE None, r.st.err)

DoExtractPlainText ==
  \E reduce \in BOOLEAN :
    /\ op' = "extract_plain_text"
    /\ arg' = [kind |-> "bool", value |-> reduce]
    /\ Extracted(ExtractPlainText(Store(heap, msg), reduce))

Rendered(r) ==
  Commit(heap, msg, IF r.err = "none" THEN StrArg(r.out) ELSE None, r.err)

DoStr ==
  /\ op' = "str"
  /\ arg' = None
  /\ Rendered(MessageStr(Deref(heap, msg)))

\* handle_message: an empty event.message gets one empty text segment
handle_message ==
  /\ op' = "handle_message"
  /\ arg' = None
  /\ Returned(IF msg = <<>>
              THEN MessageAppend(Store(heap, msg), SegArg(text(<<>>)))
              ELSE Store(heap, msg))

Next ==
  \/ DoAppend
  \/ DoExtend
  \/ DoAdd
  \/ DoReduce
  \/ DoExtractPlainText
  \/ DoStr
  \/ handle_message

Spec == Init /\ [][Next]_vars

\* the operations that read or normalise a Message, on any list of segments
NextRaw ==
  \/ DoReduce
  \/ DoExtractPlainText
  \/ DoStr

SpecRaw == InitRaw /\ [][NextRaw]_vars

(***************************************************************************)
(* The codec on its own: a Message is rendered and the wire text parsed    *)
(* into a new Message.                                                     *)
(***************************************************************************)
Str_amp_comma == <<"&", ",">>

Key_id == <<"i", "d">>

CodecPool == {text(<<>>), text(<<"a">>), text(Str_amp_comma), text(Str_MT_at),
              AtSeg, AtQQ(<<"1">>), AtQQ(COMMA),
              Segment(AT, << <<QQ, <<"1">> >>, <<Key_id, <<>> >> >>)}

InitCodec ==
  /\ \E segs \in SeqsUpTo(CodecPool, MaxRaw) :
       /\ heap = segs
       /\ msg = [i \in 1..Len(segs) |-> i]
  /\ res = None
  /\ err = "none"
  /\ op = "init"
  /\ arg = None
  /\ old = <<>>

\* Message(wire): the wire text just rendered is parsed into a new Message
DoParse ==
  /\ op = "str"
  /\ res.kind = "str"
  /\ op' = "parse"
  /\ arg' = res
  /\ Returned(MessageInit(<<>>, res))

\* one round trip for each Message: render it, then parse the wire text
NextCodec ==
  \/ op = "init" /\ DoStr
  \/ DoParse

SpecCodec == InitCodec /\ [][NextCodec]_vars

(***************************************************************************)
(* The escaper on its own: a string is escaped and the result unescaped.   *)
(***************************************************************************)
EscapeTokens == {AMP, LBR, RBR, COMMA, <<"#">>, <<";">>, <<"a">>, <<"4">>,
                 E_AMP, E_LBR, E_RBR, E_COMMA,
                 <<"a", "m", "p", ";">>, <<"#", "4", "4", ";">>}

EscapeInputs == {Flatten(ts) : ts \in SeqsUpTo(EscapeTokens, MaxTokens)}

InitEscape ==
  /\ \E s \in EscapeInputs : arg = StrArg(s)
  /\ heap = <<>>
  /\ msg = <<>>
  /\ res = None
  /\ err = "none"
  /\ op = "init"
  /\ old = <<>>

DoEscape ==
  /\ op = "init"
  /\ \E escape_comma \in BOOLEAN :
       /\ res' = StrArg(escape(arg.chars, escape_comma))
       /\ old' = [kind |-> "bool", value |-> escape_comma]
  /\ op' = "escape"
  /\ UNCHANGED <<heap, msg, err, arg>>

DoUnescape ==
  /\ op = "escape"
  /\ res' = StrArg(unescape(res.chars))
  /\ op' = "unescape"
  /\ UNCHANGED <<heap, msg, err, arg, old>>

NextEscape ==
  \/ DoEscape
  \/ DoUnescape

SpecEscape == InitEscape /\ [][NextEscape]_vars

(***************************************************************************)
(* Vocabulary of the properties.                                           *)
(***************************************************************************)
Cur == Deref(heap, msg)

IsText(g) == g.type = TEXT

\* params.get("text", "")
TextOf(g) == IF DictHas(g.data, TEXT) THEN DictGet(g.data, TEXT) ELSE <<>>

NoAdjacentText(v) ==
  \A i \in 1..(Len(v) - 1) : ~(IsText(v[i]) /\ IsText(v[i + 1]))

MsgEq(a, b) == Len(a) = Len(b) /\ \A i \in 1..Len(a) : SegEq(a[i], b[i])

DerefStore(st) == Deref(st.heap, st.list)

Reduced(v) == DerefStore(MessageReduce(Store(v, [i \in 1..Len(v) |-> i])))

NoEmptyText(v) == \A i \in 1..Len(v) : IsText(v[i]) => TextOf(v[i]) # <<>>

IsName(s) == s # <<>> /\ \A i \in 1..Len(s) : s[i] \in NameChars

Reserved == {"&", "[", "]", ","}

\* a Segment as the data model describes it: an identifier for type and
\* keys, a text Segment with the one param text, and no reserved character
\* in a parameter value of a typed token
WellFormed(g) ==
  /\ IsName(g.type)
  /\ \A i \in 1..Len(g.data) : IsName(g.data[i][1])
  /\ IF IsText(g)
     THEN Len(g.data) = 1 /\ DictHas(g.data, TEXT)
     ELSE \A i \in 1..Len(g.data) :
            \A k \in 1..Len(g.data[i][2]) : g.data[i][2][k] \notin Reserved

\* the token grammar of the specification, on a whole string: "[MT:", a
\* type, fragments key=value separated by commas, an optional comma, "]"
MatchesGrammar(s) ==
  /\ Len(s) >= 6
  /\ SubSeq(s, 1, 4) = MT_OPEN
  /\ IndexFrom(s, "]", 1) = Len(s)
  /\ LET pieces == Split(SubSeq(s, 5, Len(s) - 1), ",")
         rest == Tail(pieces)
     IN /\ IsName(pieces[1])
        /\ \A k \in 1..Len(rest) :
             \/ k = Len(rest) /\ rest[k] = <<>>
             \/ \E e \in 1..Len(rest[k]) : rest[k][e] = "="

IsBracketed(s) ==
  /\ Len(s) >= 5
  /\ SubSeq(s, 1, 4) = MT_OPEN
  /\ IndexFrom(s, "]", 1) = Len(s)
  /\ \A i \in 2..Len(s) : s[i] # "["

\* C1: concatenation (Message + other) leaves the left operand as it was:
\* after m + other the segments of m have the types and params they had.
ConcatKeepsLeftOperand == op = "add" => Cur = old

\* C2 as stated: for a Message m of well-formed Segments, parsing the
\* rendered string of m and reducing gives a Message equal to m reduced.
RoundTrip ==
  (op = "parse" /\ \A i \in 1..Len(old) : WellFormed(old[i]))
    => err = "none" /\ MsgEq(Reduced(Cur), Reduced(old))

\* C2 amended: for a Message m of well-formed Segments that holds no empty
\* text Segment after reduce(), parsing the rendered string of m and
\* reducing gives a Message equal to m reduced.
RoundTripNonEmptyText ==
  (/\ op = "parse"
   /\ \A i \in 1..Len(old) : WellFormed(old[i])
   /\ NoEmptyText(Reduced(old)))
    => err = "none" /\ MsgEq(Reduced(Cur), Reduced(old))

RoundTripWitness ==
  /\ op = "parse"
  /\ old = <<text(<<"a">>), text(Str_MT_at), AtQQ(<<"1">>)>>
  /\ Cur = <<text(<<"a">> \o Str_MT_at), AtQQ(<<"1">>)>>

\* C3: unescape(escape(s, escape_comma = true)) = s for every string s,
\* also when s holds entity-like substrings.
UnescapeInvertsEscape ==
  (op = "unescape" /\ old.value) => res.chars = arg.chars

UnescapeInvertsEscapeWitness ==
  /\ op = "unescape"
  /\ old.value
  /\ arg.chars = AMP \o E_COMMA \o E_AMP
  /\ res.chars = arg.chars

\* C4: extending or concatenating with a value of unrecognized shape (a
\* number) fails with the InvalidMessage error (the ValueError of extend
\* and __add__) and returns no result.
UnrecognizedShapeIsInvalidMessage ==
  (op \in {"extend", "add"} /\ arg.kind = "int")
    => err = "ValueError" /\ res = None

\* C5: when append, extend or concatenate fails with an error, the Message
\* it was called on holds the same segments with the same contents as before.
FailureLeavesMessageUnmodified ==
  (op \in {"append", "extend", "add"} /\ err # "none") => Cur = old

\* C6: a bracketed token that does not match the token grammar of the
\* specification raises no error and is not turned into a Segment: parsed
\* into an empty Message, its characters are there as literal text.
MalformedTokenIsLiteralText ==
  (/\ op = "extend"
   /\ arg.kind = "str"
   /\ old = <<>>
   /\ IsBracketed(arg.chars)
   /\ ~MatchesGrammar(arg.chars))
    => err = "none" /\ Cur = <<text(arg.chars)>>

\* C7: in a Message built from the empty Message by append and extend no
\* two adjacent Segments both have type text, and appending a text Segment
\* to a Message whose last Segment is text adds the incoming text to that
\* last Segment and leaves the element count unchanged.
AppendMergesText ==
  /\ NoAdjacentText(Cur)
  /\ (/\ op = "append"
      /\ arg.kind \in {"seg", "dict"}
      /\ arg.type = TEXT
      /\ old # <<>>
      /\ IsText(old[Len(old)]))
       => /\ Len(Cur) = Len(old)
          /\ \A i \in 1..(Len(old) - 1) : Cur[i] = old[i]
          /\ IsText(Cur[Len(old)])
          /\ TextOf(Cur[Len(old)]) = TextOf(old[Len(old)]) \o TextOf(arg)

AppendMergesTextWitness ==
  /\ op = "append"
  /\ arg = SegArg(text(<<"b">>))
  /\ old = <<AtSeg, text(<<"a">>)>>
  /\ Cur = <<AtSeg, text(<<"a", "b">>)>>

\* C8: in a Message built from the empty Message by append, extend and
\* reduce, a text Segment with empty content is the only element.
EmptyTextOnlyAlone ==
  \A i \in 1..Len(Cur) :
    (IsText(Cur[i]) /\ TextOf(Cur[i]) = <<>>) => Len(Cur) = 1

\* C9: after reduce() has run on any list of Segments, no two consecutive
\* Segments both have type text.
ReduceLeavesNoAdjacentText ==
  (/\ \/ op = "reduce"
      \/ op = "extract_plain_text" /\ arg.value
   /\ err = "none") => NoAdjacentText(Cur)

ReduceLeavesNoAdjacentTextWitness ==
  /\ op = "reduce"
  /\ err = "none"
  /\ old = <<text(<<"a">>), text(<<"b">>), text(<<"a">>)>>
  /\ Cur = <<text(<<"a", "b", "a">>)>>

\* C10: a text Segment whose params lack the text key is read as empty
\* text: render, append, reduce and extract_plain_text complete without an
\* error on it.
KeylessTextIsEmptyText ==
  op \in {"str", "append", "reduce", "extract_plain_text"} => err # "KeyError"

====
